---- MODULE Spec2Model ----
(***************************************************************************)
(* A model of Notebook.py: one process that builds the OpenAI client from  *)
(* the environment, reads two CSV files, inner-merges them on "symbol",    *)
(* classifies every merged row with one remote completion request, prints  *)
(* the per-sector counts, asks for one summary and prints it.              *)
(*                                                                         *)
(* Strings that are only compared are TLA+ strings.  Texts that the code   *)
(* transforms (the completion's content, which is stripped) are sequences  *)
(* of tokens, a token being a word or one whitespace character.            *)
(***************************************************************************)
EXTENDS Integers, Sequences, FiniteSets, TLC

\* ---------------------------------------------------------------- bounds
MaxRowsA == 2
MaxRowsB == 2
MaxStubRows == 2

\* ---------------------------------------------------------------- inputs
Ids == {"AAPL", "MSFT", "TSLA"}

\* Rows of nasdaq100.csv: a symbol and a company name.  Two different rows
\* carry AAPL, so that a table may repeat an identifier.
RowsA ==
  { [symbol |-> "AAPL", name |-> "Apple"],
    [symbol |-> "AAPL", name |-> "Apple Inc"],
    [symbol |-> "MSFT", name |-> "Microsoft"],
    [symbol |-> "TSLA", name |-> "Tesla"] }

\* Rows of nasdaq100_price_change.csv: a symbol, the year-to-date change (in
\* tenths of a percent) and one more column that the merge projects away.
RowsB ==
  { [symbol |-> "AAPL", ytd |-> 125, close |-> 1],
    [symbol |-> "AAPL", ytd |-> 81, close |-> 2],
    [symbol |-> "MSFT", ytd |-> 81, close |-> 3],
    [symbol |-> "TSLA", ytd |-> 0 - 30, close |-> 4] }

SeqsUpTo(S, n) == UNION { [1..m -> S] : m \in 0..n }

NoFile == [exists |-> FALSE, cols |-> {}, rows |-> <<>>]
Table(cols, rows) == [exists |-> TRUE, cols |-> cols, rows |-> rows]

\* What may be on disk under the first path: nothing, a CSV without the
\* symbol column, or a well-formed CSV of at most MaxRowsA rows.
FilesA ==
  {NoFile, Table({"name"}, <<>>)}
    \cup { Table({"symbol", "name"}, r) : r \in SeqsUpTo(RowsA, MaxRowsA) }

\* The same for the second path; the malformed CSV lacks the ytd column.
FilesB ==
  {NoFile, Table({"symbol", "close"}, <<>>)}
    \cup { Table({"symbol", "ytd", "close"}, r) : r \in SeqsUpTo(RowsB, MaxRowsB) }

\* ------------------------------------------------------- remote service
Whitespace == {" ", "\n"}

\* The texts the completion service may answer to a classification prompt.
\* Nothing constrains them to the ten sectors or to a trimmed form.
Contents ==
  { <<"Technology">>,
    <<" ", "Technology", "\n">>,
    <<"Consumer", " ", "Cyclical">> }

\* The texts it may answer to the summary prompt.
Summaries == { <<"Buy", " ", "AAPL">>, <<"\n", "Buy", " ", "AAPL", " ">> }

Message(c) == [isNone |-> FALSE, content |-> c]
NoneMessage == [isNone |-> TRUE, content |-> <<>>]

\* Outcome of client.chat.completions.create: the call raises, or returns a
\* response whose list of choices is empty, or whose first message has no
\* content, or has one of the texts above.
Raised == [raised |-> TRUE, choices |-> <<>>]
Response(choices) == [raised |-> FALSE, choices |-> choices]
ResponsesOver(texts) ==
  {Raised, Response(<<>>), Response(<<NoneMessage>>)}
    \cup { Response(<<Message(c)>>) : c \in texts }

\* str.strip(): drops the leading and the trailing whitespace, keeps the rest.
RECURSIVE LStrip(_)
LStrip(s) ==
  IF s # <<>> /\ Head(s) \in Whitespace THEN LStrip(Tail(s)) ELSE s

RECURSIVE RStrip(_)
RStrip(s) ==
  IF s # <<>> /\ s[Len(s)] \in Whitespace
    THEN RStrip(SubSeq(s, 1, Len(s) - 1))
    ELSE s

Strip(s) == RStrip(LStrip(s))

\* response.choices[0].message.content.strip(): the exception it raises, or
\* "none".
ExtractError(resp) ==
  IF resp.raised THEN "APIError"
  ELSE IF resp.choices = <<>> THEN "IndexError"
  ELSE IF resp.choices[1].isNone THEN "AttributeError"
  ELSE "none"

ExtractText(resp) == Strip(resp.choices[1].content)

\* The prompt of classify_sector for one symbol.
ClassifyPrompt(symbol) ==
  << "Classify company ", symbol,
     " into one of the following sectors. Answer only with the sector name" >>

ChatRequest(prompt) ==
  [model |-> "gpt-3.5-turbo", temperature |-> 0, prompt |-> prompt]

\* ---------------------------------------------------------------- tables
\* price_df[["symbol", "ytd"]]
Project(rows) ==
  [i \in 1..Len(rows) |-> [symbol |-> rows[i].symbol, ytd |-> rows[i].ytd]]

JoinRow(l, r) == [symbol |-> l.symbol, name |-> l.name, ytd |-> r.ytd]

\* The rows of right that carry l's symbol, each joined to l, in right's order.
RECURSIVE JoinOne(_, _)
JoinOne(l, right) ==
  IF right = <<>> THEN <<>>
  ELSE IF Head(right).symbol = l.symbol
    THEN <<JoinRow(l, Head(right))>> \o JoinOne(l, Tail(right))
    ELSE JoinOne(l, Tail(right))

\* Faulty variant: how="left", which keeps the left rows that have no partner.
RECURSIVE MergeRows_Left(_, _)
MergeRows_Left(left, right) ==
  IF left = <<>> THEN <<>>
  ELSE (IF JoinOne(Head(left), right) = <<>>
          THEN << [symbol |-> Head(left).symbol, name |-> Head(left).name,
                   ytd |-> "NaN"] >>
          ELSE JoinOne(Head(left), right))
       \o MergeRows_Left(Tail(left), right)

\* Faulty variant: the tables are put side by side by position, not matched by key.
MergeRows_ByIndex(left, right) ==
  [i \in 1..(IF Len(left) < Len(right) THEN Len(left) ELSE Len(right)) |->
     JoinRow(left[i], right[i])]

\* left.merge(right, on="symbol", how="inner"): every pair of a left and a
\* right row with equal symbols, in the order of the left keys.
RECURSIVE MergeRows(_, _)
MergeRows(left, right) ==
  IF left = <<>> THEN <<>>
  ELSE JoinOne(Head(left), right) \o MergeRows(Tail(left), right)

\* df["Sector"] = labels
WithSector(rows, labels) ==
  [i \in 1..Len(rows) |->
     [symbol |-> rows[i].symbol, name |-> rows[i].name,
      ytd |-> rows[i].ytd, Sector |-> labels[i]]]

HasSector(rows) == \A i \in 1..Len(rows) : "Sector" \in DOMAIN rows[i]

\* Faulty variant: counts each label's distinct symbols instead of its rows.
ValueCounts_Unique(rows) ==
  [l \in {rows[i].Sector : i \in 1..Len(rows)} |->
     Cardinality({rows[i].symbol : i \in {j \in 1..Len(rows) : rows[j].Sector = l}})]

\* Series.value_counts(): the labels that occur, each with its number of rows.
ValueCounts(rows) ==
  [l \in {rows[i].Sector : i \in 1..Len(rows)} |->
     Cardinality({i \in 1..Len(rows) : rows[i].Sector = l})]

\* df.to_string(index=False): the header and one line per row, every column.
to_string(rows) ==
  [header |-> <<"symbol", "name", "ytd", "Sector">>,
   lines |-> [i \in 1..Len(rows) |->
                <<rows[i].symbol, rows[i].name, rows[i].ytd, rows[i].Sector>>]]

SummaryPrompt(rows) ==
  << "Provide summary information about Nasdaq-100 stock performance",
     to_string(rows) >>

\* ----------------------------------------------------------------- state
VARIABLES
  credential,       \* is OPENAI_API_KEY in os.environ
  fileA, fileB,     \* what is on disk under the two paths
  pc,               \* the statement the process is at
  nasdaq_df,        \* rows read from the first file
  price_df,         \* rows read from the second file
  df,               \* the merged table of main (nasdaq100_df / enriched_df)
  k,                \* the row Series.apply is at
  labels,           \* the values Series.apply has collected so far
  inflight,         \* requests sent whose call has not returned
  requests,         \* every request sent to the service, in order
  trace,            \* the process's I/O events, in order
  stdout,           \* the sections printed
  recommendations,  \* the local of main holding the summary
  error,            \* the exception that ended the process, or "none"
  stub,             \* a deterministic stand-in for classify_sector
  tableX, tableY,   \* two merged tables given to enrichment under the stub
  outX, outY        \* what enrichment made of them

progVars ==
  << credential, fileA, fileB, pc, nasdaq_df, price_df, df, k, labels,
     inflight, requests, trace, stdout, recommendations, error >>
stubVars == << stub, tableX, tableY, outX, outY >>
vars == << progVars, stubVars >>

NotRun == [state |-> "not run", rows |-> <<>>]

Init ==
  /\ credential \in BOOLEAN
  /\ fileA \in FilesA
  /\ fileB \in FilesB
  /\ pc = "import"
  /\ nasdaq_df = <<>>
  /\ price_df = <<>>
  /\ df = <<>>
  /\ k = 1
  /\ labels = <<>>
  /\ inflight = <<>>
  /\ requests = <<>>
  /\ trace = <<>>
  /\ stdout = <<>>
  /\ recommendations = <<>>
  /\ error = "none"
  /\ stub = [s \in Ids |-> [raises |-> TRUE, label |-> <<>>]]
  /\ tableX = <<>>
  /\ tableY = <<>>
  /\ outX = NotRun
  /\ outY = NotRun

\* An uncaught exception: the traceback goes to stderr and the process ends.
Crash(exc) ==
  /\ pc' = "crashed"
  /\ error' = exc

\* ------------------------------------------------------------ the process
\* Faulty variant: os.environ.get, which yields None instead of raising.
CreateClient_Lenient ==
  /\ pc = "import"
  /\ pc' = "read_a"
  /\ UNCHANGED << credential, fileA, fileB, nasdaq_df, price_df, df, k, labels,
                  inflight, requests, trace, stdout, recommendations, error >>
  /\ UNCHANGED stubVars

\* Line 6, run at import, before main: os.environ["OPENAI_API_KEY"] raises
\* KeyError when the variable is not set.
CreateClient ==
  /\ pc = "import"
  /\ IF credential
       THEN pc' = "read_a" /\ error' = error
       ELSE Crash("KeyError")
  /\ UNCHANGED << credential, fileA, fileB, nasdaq_df, price_df, df, k, labels,
                  inflight, requests, trace, stdout, recommendations >>
  /\ UNCHANGED stubVars

\* Line 12: pd.read_csv(nasdaq_file)
ReadA ==
  /\ pc = "read_a"
  /\ trace' = Append(trace, "read_a")
  /\ IF fileA.exists
       THEN /\ nasdaq_df' = fileA.rows
            /\ pc' = "read_b"
            /\ error' = error
       ELSE /\ Crash("FileNotFoundError")
            /\ nasdaq_df' = nasdaq_df
  /\ UNCHANGED << credential, fileA, fileB, price_df, df, k, labels,
                  inflight, requests, stdout, recommendations >>
  /\ UNCHANGED stubVars

\* Line 13: pd.read_csv(price_change_file)
ReadB ==
  /\ pc = "read_b"
  /\ trace' = Append(trace, "read_b")
  /\ IF fileB.exists
       THEN /\ price_df' = fileB.rows
            /\ pc' = "merge"
            /\ error' = error
       ELSE /\ Crash("FileNotFoundError")
            /\ price_df' = price_df
  /\ UNCHANGED << credential, fileA, fileB, nasdaq_df, df, k, labels,
                  inflight, requests, stdout, recommendations >>
  /\ UNCHANGED stubVars

\* Lines 15-16: the projection raises KeyError without both columns in the
\* second file, the merge raises KeyError without the key in the first.
Merge ==
  /\ pc = "merge"
  /\ IF {"symbol", "ytd"} \subseteq fileB.cols /\ "symbol" \in fileA.cols
       THEN /\ df' = MergeRows(nasdaq_df, Project(price_df))
            /\ pc' = "apply"
            /\ error' = error
       ELSE /\ Crash("KeyError")
            /\ df' = df
  /\ UNCHANGED << credential, fileA, fileB, nasdaq_df, price_df, k, labels,
                  inflight, requests, trace, stdout, recommendations >>
  /\ UNCHANGED stubVars

\* Faulty variant: every classification sends its request twice.
ClassifyCall_Twice ==
  /\ pc = "apply"
  /\ k <= Len(df)
  /\ LET req == [by |-> "classify_sector",
                 request |-> ChatRequest(ClassifyPrompt(df[k].symbol))]
     IN /\ requests' = requests \o <<req, req>>
        /\ inflight' = Append(inflight, req)
  /\ trace' = trace \o <<"classify_request", "classify_request">>
  /\ pc' = "classify_wait"
  /\ UNCHANGED << credential, fileA, fileB, nasdaq_df, price_df, df, k, labels,
                  stdout, recommendations, error >>
  /\ UNCHANGED stubVars

\* Faulty variant: a symbol classified before is answered from a cache, without a
\* request.
ClassifyCall_Cached ==
  /\ pc = "apply"
  /\ k <= Len(df)
  /\ IF \E j \in 1..(k - 1) : df[j].symbol = df[k].symbol
       THEN /\ labels' = Append(labels,
                 labels[CHOOSE j \in 1..(k - 1) : df[j].symbol = df[k].symbol])
            /\ k' = k + 1
            /\ UNCHANGED << requests, inflight, trace, pc >>
       ELSE /\ LET req == [by |-> "classify_sector",
                           request |-> ChatRequest(ClassifyPrompt(df[k].symbol))]
               IN /\ requests' = Append(requests, req)
                  /\ inflight' = Append(inflight, req)
            /\ trace' = Append(trace, "classify_request")
            /\ pc' = "classify_wait"
            /\ UNCHANGED << labels, k >>
  /\ UNCHANGED << credential, fileA, fileB, nasdaq_df, price_df, df,
                  stdout, recommendations, error >>
  /\ UNCHANGED stubVars

\* Lines 44 and 25-34: Series.apply calls classify_sector on the next symbol,
\* which sends one request and blocks.
ClassifyCall ==
  /\ pc = "apply"
  /\ k <= Len(df)
  /\ LET req == [by |-> "classify_sector",
                 request |-> ChatRequest(ClassifyPrompt(df[k].symbol))]
     IN /\ requests' = Append(requests, req)
        /\ inflight' = Append(inflight, req)
  /\ trace' = Append(trace, "classify_request")
  /\ pc' = "classify_wait"
  /\ UNCHANGED << credential, fileA, fileB, nasdaq_df, price_df, df, k, labels,
                  stdout, recommendations, error >>
  /\ UNCHANGED stubVars

\* Faulty variant: a failed classification is skipped (its label left empty) and the
\* loop goes on.
ClassifyReturn_SkipFailed ==
  /\ pc = "classify_wait"
  /\ \E resp \in ResponsesOver(Contents) :
       IF ExtractError(resp) = "none"
         THEN /\ labels' = Append(labels, ExtractText(resp))
              /\ trace' = Append(trace, "classify_response")
         ELSE /\ labels' = Append(labels, <<>>)
              /\ trace' = Append(trace, "classify_failed")
  /\ k' = k + 1
  /\ pc' = "apply"
  /\ inflight' = <<>>
  /\ UNCHANGED << credential, fileA, fileB, nasdaq_df, price_df, df,
                  requests, stdout, recommendations, error >>
  /\ UNCHANGED stubVars

\* Lines 30-36: the call returns or raises; the stripped text of the first
\* choice is classify_sector's result, which apply collects.
ClassifyReturn ==
  /\ pc = "classify_wait"
  /\ \E resp \in ResponsesOver(Contents) :
       IF ExtractError(resp) = "none"
         THEN /\ labels' = Append(labels, ExtractText(resp))
              /\ k' = k + 1
              /\ pc' = "apply"
              /\ error' = error
              /\ trace' = Append(trace, "classify_response")
         ELSE /\ Crash(ExtractError(resp))
              /\ trace' = Append(trace, "classify_failed")
              /\ UNCHANGED << labels, k >>
  /\ inflight' = <<>>
  /\ UNCHANGED << credential, fileA, fileB, nasdaq_df, price_df, df,
                  requests, stdout, recommendations >>
  /\ UNCHANGED stubVars

\* Lines 44-45: apply has gone through every row; its result becomes the
\* Sector column of the table, which is returned to main.
AssignSector ==
  /\ pc = "apply"
  /\ k > Len(df)
  /\ df' = WithSector(df, labels)
  /\ pc' = "print_counts"
  /\ UNCHANGED << credential, fileA, fileB, nasdaq_df, price_df, k, labels,
                  inflight, requests, trace, stdout, recommendations, error >>
  /\ UNCHANGED stubVars

\* Lines 75-76
PrintCounts ==
  /\ pc = "print_counts"
  /\ stdout' = Append(stdout, [section |-> "Sector counts:",
                               counts |-> ValueCounts(df), text |-> <<>>])
  /\ trace' = Append(trace, "print_counts")
  /\ pc' = "summarize"
  /\ UNCHANGED << credential, fileA, fileB, nasdaq_df, price_df, df, k, labels,
                  inflight, requests, recommendations, error >>
  /\ UNCHANGED stubVars

\* Lines 79 and 54-63: get_stock_recommendations sends one request and blocks.
SummarizeCall ==
  /\ pc = "summarize"
  /\ LET req == [by |-> "get_stock_recommendations",
                 request |-> ChatRequest(SummaryPrompt(df))]
     IN /\ requests' = Append(requests, req)
        /\ inflight' = Append(inflight, req)
  /\ trace' = Append(trace, "summary_request")
  /\ pc' = "summarize_wait"
  /\ UNCHANGED << credential, fileA, fileB, nasdaq_df, price_df, df, k, labels,
                  stdout, recommendations, error >>
  /\ UNCHANGED stubVars

\* Faulty variant: a failed summary request is sent again.
SummarizeReturn_Retry ==
  /\ pc = "summarize_wait"
  /\ \E resp \in ResponsesOver(Summaries) :
       IF ExtractError(resp) = "none"
         THEN /\ recommendations' = ExtractText(resp)
              /\ pc' = "print_recs"
              /\ trace' = Append(trace, "summary_response")
         ELSE /\ recommendations' = recommendations
              /\ pc' = "summarize"
              /\ trace' = Append(trace, "summary_failed")
  /\ inflight' = <<>>
  /\ UNCHANGED << credential, fileA, fileB, nasdaq_df, price_df, df, k, labels,
                  requests, stdout, error >>
  /\ UNCHANGED stubVars

\* Faulty variant: the summary is fed back into a second round of classification.
SummarizeReturn_Feedback ==
  /\ pc = "summarize_wait"
  /\ \E resp \in ResponsesOver(Summaries) :
       IF ExtractError(resp) = "none"
         THEN /\ recommendations' = ExtractText(resp)
              /\ pc' = "apply"
              /\ k' = 1
              /\ labels' = <<>>
              /\ error' = error
              /\ trace' = Append(trace, "summary_response")
         ELSE /\ Crash(ExtractError(resp))
              /\ trace' = Append(trace, "summary_failed")
              /\ UNCHANGED << recommendations, k, labels >>
  /\ inflight' = <<>>
  /\ UNCHANGED << credential, fileA, fileB, nasdaq_df, price_df, df,
                  requests, stdout >>
  /\ UNCHANGED stubVars

\* Lines 59-65 and 79
SummarizeReturn ==
  /\ pc = "summarize_wait"
  /\ \E resp \in ResponsesOver(Summaries) :
       IF ExtractError(resp) = "none"
         THEN /\ recommendations' = ExtractText(resp)
              /\ pc' = "print_recs"
              /\ error' = error
              /\ trace' = Append(trace, "summary_response")
         ELSE /\ Crash(ExtractError(resp))
              /\ trace' = Append(trace, "summary_failed")
              /\ recommendations' = recommendations
  /\ inflight' = <<>>
  /\ UNCHANGED << credential, fileA, fileB, nasdaq_df, price_df, df, k, labels,
                  requests, stdout >>
  /\ UNCHANGED stubVars

\* Lines 80-81
PrintRecommendations ==
  /\ pc = "print_recs"
  /\ stdout' = Append(stdout, [section |-> "Stock Recommendations:",
                               counts |-> <<>>, text |-> recommendations])
  /\ trace' = Append(trace, "print_recs")
  /\ pc' = "done"
  /\ UNCHANGED << credential, fileA, fileB, nasdaq_df, price_df, df, k, labels,
                  inflight, requests, recommendations, error >>
  /\ UNCHANGED stubVars

Next ==
  \/ CreateClient
  \/ ReadA
  \/ ReadB
  \/ Merge
  \/ ClassifyCall
  \/ ClassifyReturn
  \/ AssignSector
  \/ PrintCounts
  \/ SummarizeCall
  \/ SummarizeReturn
  \/ PrintRecommendations

Spec == Init /\ [][Next]_vars

\* ------------------------------------------- enrichment under a stand-in
\* A deterministic stand-in for classify_sector maps every symbol to a label
\* or to an exception, the same at every call.
StubLabels == { <<"Technology">>, <<"Consumer", " ", "Cyclical">> }
StubOutcomes ==
  { [raises |-> TRUE, label |-> <<>>] }
    \cup { [raises |-> FALSE, label |-> l] : l \in StubLabels }

StubRows == { [symbol |-> s, name |-> "name", ytd |-> 0] : s \in Ids }
StubTables == SeqsUpTo(StubRows, MaxStubRows)

\* Faulty variant: every row is classified by the first value of the symbol column.
EnrichWithStub_FirstSymbol(rows, f) ==
  IF \E i \in 1..Len(rows) : f[rows[1].symbol].raises
    THEN [state |-> "raised", rows |-> rows]
    ELSE [state |-> "returned",
          rows |-> WithSector(rows, [i \in 1..Len(rows) |-> f[rows[1].symbol].label])]

\* enrich_sector_information with classify_sector replaced by f: apply maps
\* f over the symbol column in order; an exception leaves the table without
\* the Sector column, otherwise the results become that column.
EnrichWithStub(rows, f) ==
  IF \E i \in 1..Len(rows) : f[rows[i].symbol].raises
    THEN [state |-> "raised", rows |-> rows]
    ELSE [state |-> "returned",
          rows |-> WithSector(rows, [i \in 1..Len(rows) |-> f[rows[i].symbol].label])]

InitPair ==
  /\ credential = TRUE
  /\ fileA = NoFile
  /\ fileB = NoFile
  /\ pc = "stubbed"
  /\ nasdaq_df = <<>>
  /\ price_df = <<>>
  /\ df = <<>>
  /\ k = 1
  /\ labels = <<>>
  /\ inflight = <<>>
  /\ requests = <<>>
  /\ trace = <<>>
  /\ stdout = <<>>
  /\ recommendations = <<>>
  /\ error = "none"
  /\ stub \in [Ids -> StubOutcomes]
  /\ tableX \in StubTables
  /\ tableY \in StubTables
  /\ outX = NotRun
  /\ outY = NotRun

EnrichX ==
  /\ pc = "stubbed"
  /\ outX = NotRun
  /\ outX' = EnrichWithStub(tableX, stub)
  /\ UNCHANGED << stub, tableX, tableY, outY >>
  /\ UNCHANGED progVars

EnrichY ==
  /\ pc = "stubbed"
  /\ outY = NotRun
  /\ outY' = EnrichWithStub(tableY, stub)
  /\ UNCHANGED << stub, tableX, tableY, outX >>
  /\ UNCHANGED progVars

NextPair ==
  \/ EnrichX
  \/ EnrichY

SpecPair == InitPair /\ [][NextPair]_vars

\* ============================================================ properties
SymbolsOf(rows) == {rows[i].symbol : i \in 1..Len(rows)}
Positions(ev) == {i \in 1..Len(trace) : trace[i] = ev}
RemoteErrors == {"APIError", "IndexError", "AttributeError"}
Technology == <<"Technology">>

\* The ten sectors the classification prompt enumerates.
Sectors ==
  { <<"Technology">>, <<"Consumer", " ", "Cyclical">>, <<"Industrials">>,
    <<"Utilities">>, <<"Healthcare">>, <<"Communication">>, <<"Energy">>,
    <<"Consumer", " ", "Defensive">>, <<"Real", " ", "Estate">>,
    <<"Financial">> }

\* load_and_merge_datasets has returned (the process is in or past enrichment).
MergeDone ==
  \/ pc \in {"apply", "classify_wait", "print_counts", "summarize",
             "summarize_wait", "print_recs", "done"}
  \/ pc = "crashed" /\ error \in RemoteErrors

Unique(rows) ==
  \A i, j \in 1..Len(rows) : rows[i].symbol = rows[j].symbol => i = j

SomeSector == \E i \in 1..Len(df) : "Sector" \in DOMAIN df[i]

CountFor(counts, l) == IF l \in DOMAIN counts THEN counts[l] ELSE 0

RECURSIVE SumOver(_, _)
SumOver(counts, S) ==
  IF S = {} THEN 0
  ELSE LET x == CHOOSE y \in S : TRUE
       IN counts[x] + SumOver(counts, S \ {x})

\* ----------------------------------------------------------------- C1
\* C1: once load_and_merge_datasets has returned, the identifiers of the
\* merged table are exactly those present in both input tables.
C1_InnerJoinIds ==
  MergeDone =>
    SymbolsOf(df) = SymbolsOf(fileA.rows) \cap SymbolsOf(fileB.rows)

\* A merge in which one identifier is shared, one is only in the first table
\* and one only in the second.
C1_Witness ==
  /\ MergeDone
  /\ SymbolsOf(df) # {}
  /\ SymbolsOf(fileA.rows) \ SymbolsOf(fileB.rows) # {}
  /\ SymbolsOf(fileB.rows) \ SymbolsOf(fileA.rows) # {}

\* ----------------------------------------------------------------- C7
\* C7: when both well-formed sources have unique identifiers, the merge raises
\* nothing and yields exactly one record per shared identifier, carrying the
\* year-to-date change of the second source's row with that identifier; no
\* record carries an identifier that only the second source has.
C7_UniqueKeysMerge ==
  ( /\ credential
    /\ fileA \in FilesA \ {NoFile, Table({"name"}, <<>>)}
    /\ fileB \in FilesB \ {NoFile, Table({"symbol", "close"}, <<>>)}
    /\ Unique(fileA.rows)
    /\ Unique(fileB.rows) )
  =>
    /\ error \notin {"KeyError", "FileNotFoundError"}
    /\ MergeDone =>
         LET shared == SymbolsOf(fileA.rows) \cap SymbolsOf(fileB.rows)
         IN /\ Len(df) = Cardinality(shared)
            /\ \A s \in shared :
                 \E i \in 1..Len(df) :
                   /\ df[i].symbol = s
                   /\ \E j \in 1..Len(fileB.rows) :
                        /\ fileB.rows[j].symbol = s
                        /\ df[i].ytd = fileB.rows[j].ytd
            /\ \A i \in 1..Len(df) : df[i].symbol \in shared

\* Two shared identifiers listed in opposite orders by the two sources, with
\* different year-to-date changes.
C7_Witness ==
  /\ MergeDone
  /\ Unique(fileA.rows)
  /\ Unique(fileB.rows)
  /\ Len(df) = 2
  /\ fileA.rows[1].symbol = fileB.rows[2].symbol
  /\ df[1].ytd # df[2].ytd

\* A row of the second source whose identifier the first lacks is dropped and
\* the shared one is kept.
C7_DroppedWitness ==
  /\ MergeDone
  /\ Unique(fileA.rows)
  /\ Unique(fileB.rows)
  /\ Len(df) = 1
  /\ SymbolsOf(fileB.rows) \ SymbolsOf(fileA.rows) # {}

\* ----------------------------------------------------------------- C3
\* C3: without the credential the process ends with the KeyError of line 6
\* having read no file and sent no request.
C3_NoCredentialNoIO ==
  ~credential =>
    /\ pc \in {"import", "crashed"}
    /\ pc = "crashed" => error = "KeyError"
    /\ trace = <<>>
    /\ requests = <<>>

\* The process has failed for want of the credential although both files are
\* there to be read.
C3_Witness ==
  /\ ~credential
  /\ pc = "crashed"
  /\ fileA.exists
  /\ fileB.exists

\* ----------------------------------------------------------------- C4
\* C4 as stated: a successful run over N merged records has sent 2N + 1
\* requests.
C4_TwoPerRecord ==
  pc = "done" => Len(requests) = 2 * Len(df) + 1

\* C4 amended: a successful run over N merged records has sent N + 1
\* requests, N by classify_sector followed by one by
\* get_stock_recommendations.
C4_OnePerRecord ==
  pc = "done" =>
    /\ Len(requests) = Len(df) + 1
    /\ \A i \in 1..Len(df) : requests[i].by = "classify_sector"
    /\ requests[Len(df) + 1].by = "get_stock_recommendations"

C4_Witness ==
  /\ pc = "done"
  /\ Len(df) >= 2

\* ----------------------------------------------------------------- C2
\* C2: a failed classification is the last event of the run: the exception
\* ends the process, the classifier has been called for the failing record and
\* the ones before it only, and no record has a sector.  A record has a sector
\* only when every record has one and no classification has failed.
C2_FailFast ==
  /\ \A i \in Positions("classify_failed") :
       /\ i = Len(trace)
       /\ pc = "crashed"
       /\ error \in RemoteErrors
       /\ inflight = <<>>
       /\ Cardinality(Positions("classify_request")) = Len(labels) + 1
       /\ ~SomeSector
  /\ SomeSector =>
       /\ HasSector(df)
       /\ Positions("classify_failed") = {}
       /\ Cardinality(Positions("classify_response")) = Len(df)

\* The second of at least three records has failed.
C2_Witness ==
  /\ Positions("classify_failed") # {}
  /\ Len(labels) = 1
  /\ Len(df) >= 3

\* ----------------------------------------------------------------- C5
\* C5 as stated: a failed remote call is the last event of the run, and
\* nothing has been printed in a run in which one failed.
C5_NoOutputAfterFailure ==
  \A i \in Positions("classify_failed") \cup Positions("summary_failed") :
    /\ i = Len(trace)
    /\ pc = "crashed"
    /\ stdout = <<>>

\* C5 amended: a failed remote call is the last event of the run (the run
\* aborts there and the call is not retried) and the recommendation report is
\* never printed in that run.  Nothing at all has been printed when a
\* classification failed; when the summary request failed, the sector counts,
\* which main prints before sending it, are the only output.
C5_AbortWithoutReport ==
  /\ \A i \in Positions("classify_failed") :
       /\ i = Len(trace)
       /\ pc = "crashed"
       /\ error \in RemoteErrors
       /\ stdout = <<>>
  /\ \A i \in Positions("summary_failed") :
       /\ i = Len(trace)
       /\ pc = "crashed"
       /\ error \in RemoteErrors
       /\ Len(stdout) = 1
       /\ stdout[1].section = "Sector counts:"
       /\ Cardinality(Positions("summary_request")) = 1

\* The summary request has failed after a non-empty table was counted.
C5_Witness ==
  /\ Positions("summary_failed") # {}
  /\ Len(df) >= 1
  /\ Len(stdout) = 1

\* ----------------------------------------------------------------- C8
\* C8: when every classification returned "Technology", the counts printed for
\* a table of N records give N for "Technology" and 0 for every other label,
\* and sum to N.
C8_AllTechnologyCounts ==
  ( /\ Len(stdout) >= 1
    /\ \A i \in 1..Len(labels) : labels[i] = Technology )
  =>
    LET counts == stdout[1].counts
    IN /\ CountFor(counts, Technology) = Len(df)
       /\ \A l \in (Sectors \cup DOMAIN counts) \ {Technology} :
            CountFor(counts, l) = 0
       /\ SumOver(counts, DOMAIN counts) = Len(df)

\* Counts printed for a table that repeats an identifier, all "Technology".
C8_Witness ==
  /\ Len(stdout) >= 1
  /\ Len(df) >= 2
  /\ df[1].symbol = df[2].symbol
  /\ \A i \in 1..Len(labels) : labels[i] = Technology

\* ----------------------------------------------------------------- C9
\* C9: at most one request is outstanding at any time; while enrichment runs,
\* the requests sent are those for the first records of the table, in table
\* order; and when enrichment has succeeded, exactly one request per record
\* has been sent by classify_sector, the i-th for the i-th record's
\* identifier, and the i-th record's sector is the i-th result.
C9_OncePerRecordInOrder ==
  /\ Len(inflight) <= 1
  /\ MergeDone =>
       LET sent == Cardinality(Positions("classify_request"))
       IN /\ sent <= Len(df)
          /\ sent \in {Len(labels), Len(labels) + 1}
          /\ Len(inflight) = 1 /\ pc = "classify_wait" => sent = Len(labels) + 1
          /\ \A i \in 1..sent :
               /\ i <= Len(requests)
               /\ requests[i].by = "classify_sector"
               /\ requests[i].request = ChatRequest(ClassifyPrompt(df[i].symbol))
  /\ pc \in {"print_counts", "summarize", "summarize_wait", "print_recs", "done"} =>
       /\ Cardinality(Positions("classify_request")) = Len(df)
       /\ Cardinality({i \in 1..Len(requests) : requests[i].by = "classify_sector"})
            = Len(df)
       /\ Len(labels) = Len(df)
       /\ \A i \in 1..Len(df) : df[i].Sector = labels[i]

\* Enrichment has succeeded on a table whose first two records share their
\* identifier and were given different sectors by two separate requests.
C9_Witness ==
  /\ pc = "print_counts"
  /\ Len(df) >= 2
  /\ df[1].symbol = df[2].symbol
  /\ df[1].Sector # df[2].Sector
  /\ requests[1] = requests[2]

\* ---------------------------------------------------------------- C10
\* C10: at most one summary request is ever sent; when it is sent both files
\* have been read, every record has been classified and carries a sector; and
\* no file is read and no classification requested after it.
C10_LinearFlow ==
  /\ Cardinality(Positions("summary_request")) <= 1
  /\ \A i \in Positions("summary_request") :
       /\ \E a \in Positions("read_a") : a < i
       /\ \E b \in Positions("read_b") : b < i
       /\ Cardinality({j \in Positions("classify_response") : j < i}) = Len(df)
       /\ HasSector(df)
       /\ Len(labels) = Len(df)
       /\ \A j \in 1..Len(trace) :
            j > i => trace[j] \notin {"read_a", "read_b", "classify_request"}

\* A run over a non-empty table has ended after its summary request.
C10_Witness ==
  /\ pc = "done"
  /\ Len(df) >= 1
  /\ Positions("summary_request") # {}

\* ----------------------------------------------------------------- C6
\* C6: when the same deterministic classifier has enriched two tables, any
\* record of the one and any record of the other (or of the same) that carry
\* the same identifier carry the same sector, whatever else the tables hold
\* and in whatever order.
C6_SectorDependsOnIdOnly ==
  \A a \in {outX, outY} : \A b \in {outX, outY} :
    (a.state = "returned" /\ b.state = "returned") =>
      \A i \in 1..Len(a.rows) : \A j \in 1..Len(b.rows) :
        a.rows[i].symbol = b.rows[j].symbol =>
          a.rows[i].Sector = b.rows[j].Sector

\* Both tables are enriched; they share an identifier at different positions
\* next to records of other identifiers with another sector.
C6_Witness ==
  /\ outX.state = "returned"
  /\ outY.state = "returned"
  /\ Len(outX.rows) = 2
  /\ Len(outY.rows) = 2
  /\ outX.rows[1].symbol = outY.rows[2].symbol
  /\ outX.rows[2].symbol # outY.rows[1].symbol
  /\ outX.rows[1].Sector # outX.rows[2].Sector

====
